---- MODULE Spec2Model ----
(***************************************************************************)
(* The in-process WebSocket connection / room manager of the template      *)
(* (core/websocket.py) and the endpoints built on it                       *)
(* (controllers/websocket_api.py), and the rate limiter of the middleware. *)
(*                                                                         *)
(* The specifications share the registry operators:                        *)
(*   Spec             the WebSocketManager API called directly: connect,   *)
(*                    disconnect, join_room, leave_room, plus the weak-set *)
(*                    finalisation of a connection object nobody holds;    *)
(*   SpecBroadcast    the same API with channels closing and broadcast     *)
(*                    calls, one step per awaited send;                    *)
(*   SpecSession      websocket_handler session loops of the endpoints;    *)
(*   SpecSendTo       send_to calls of every task;                         *)
(*   SpecFrames       session loops with the replies their peers get;      *)
(*   SpecStall        broadcast with each send in two steps (called, then  *)
(*                    completed) and peers that stop reading, under the    *)
(*                    event loop's fairness;                               *)
(*   SpecOrder        tagged broadcasts of several tasks and the log of    *)
(*                    what each connection is handed (SpecOrderFair: under *)
(*                    the event loop's fairness);                          *)
(*   SpecSessionStall session loops with two-step sends and peers that     *)
(*                    stop reading, under the event loop's fairness;       *)
(*   SpecEcho         the echo endpoint and the default echo, with the     *)
(*                    text frames, their parsing and the replies written;  *)
(*   SpecPublic       the broadcast endpoint next to the echo endpoint;    *)
(*   SpecRoom         the room endpoint: joins, list_users, leaves;        *)
(*   SpecNotify       the notifications endpoint: subscriptions;           *)
(*   SpecNotice       send_notification called for subscribers;            *)
(*   SpecShared       the broadcast endpoint next to the room endpoint     *)
(*                    with the room name "broadcast";                      *)
(*   SpecEffect       broadcast and send_to calls between registrations;   *)
(*   SpecRate         the Redis sliding-window rate limiter                *)
(*                    (middleware/rate_limit.py).                          *)
(***************************************************************************)
EXTENDS Integers, Sequences, FiniteSets, TLC

\* ------------------------------------------------------------------ bounds
\* Number of connection objects (web.WebSocketResponse instances).
MaxConns == 2
\* Number of tagged broadcasts one task issues.
MaxMsgs == 2
Conns == 1..MaxConns
\* The task of application code that calls broadcast outside any session.
AppTask == 0
\* The tasks that can be inside a broadcast call: the application task, and
\* the session task of each connection (named by its connection).
Callers == {AppTask} \cup Conns

\* The value None of an optional connection argument (exclude=None).
NoConn == 0
\* The message of a broadcast whose deliveries are not logged.
NoMsg == << >>
\* The value None of an optional room argument (room=None).
NoRoom == "None"
\* Room names: "" is a str like any other, and the only falsy one.
RoomNames == {"", "A", "B"}
RoomArgs == RoomNames \cup {NoRoom}

VARIABLES
    connections,   \* WebSocketManager._connections: the global WeakSet
    rooms,         \* WebSocketManager._rooms: dict room name -> WeakSet
    metadata,      \* keys of WebSocketManager._connection_metadata (id(ws))
    closed,        \* ws.closed of each connection object
    live,          \* connection objects still strongly referenced
    bc,            \* per task: the broadcast call it is inside, if any
    pc,            \* per connection: where its websocket_handler call is
    ep,            \* per connection: the endpoint that serves it
    sroom,         \* per connection: the room argument of websocket_handler
    topics,        \* per connection: subscribed_topics of notifications_handler
    cause,         \* per connection: why its receive loop ended
    exc,           \* per connection: an exception is propagating (in finally)
    inbox,         \* per connection: the tagged messages its send_str completed
    snd,           \* per task: its last send_to call
    last,          \* per connection: what its loop did with its last frame
    stalled,       \* connections whose peer has stopped reading
    issued,        \* per task: number of tagged broadcasts it has issued
    frames,        \* per connection: the text frames its loop has taken
    clock,         \* time.time(), in ticks
    zsets,         \* the store: per rate-limit key, the scores of its sorted set
    recorded,      \* per key: the instants of the requests the store was told
    verdict        \* the last is_allowed call and what it returned

regVars == <<connections, rooms, metadata>>
sessVars == <<pc, ep, sroom, topics, cause, exc>>
\* The rate limiter and its store, which no websocket operation touches.
rlVars == <<clock, zsets, recorded, verdict>>
\* What the peers and the callers get to see of sends and replies.
obsVars == <<inbox, snd, last, stalled, issued, frames, rlVars>>
vars == <<connections, rooms, metadata, closed, live, bc,
          pc, ep, sroom, topics, cause, exc,
          inbox, snd, last, stalled, issued, frames,
          clock, zsets, recorded, verdict>>

\* ------------------------------------------------- Python truthiness of room
\* `if room:` is false for None and for the empty string.
Truthy(room) == room # NoRoom /\ room # ""

\* ------------------------------------------------------- registry operators
\* get_room_count: 0 for a key that is absent, else len of the WeakSet.
get_room_count(room) ==
    IF room \notin DOMAIN rooms THEN 0 ELSE Cardinality(rooms[room])

\* list_rooms: the keys of the dict.
list_rooms == DOMAIN rooms

\* connection_count: len of the global WeakSet.
connection_count == Cardinality(connections)

\* `if room not in self._rooms: self._rooms[room] = WeakSet()` then `.add(ws)`.
RoomsAdd(rs, ws, room) ==
    IF room \in DOMAIN rs
    THEN [rs EXCEPT ![room] = @ \cup {ws}]
    ELSE [r \in DOMAIN rs \cup {room} |-> IF r = room THEN {ws} ELSE rs[r]]

\* `if room in self._rooms: discard(ws); if not self._rooms[room]: del`.
RoomsDiscard(rs, ws, room) ==
    IF room \in DOMAIN rs
    THEN IF rs[room] \ {ws} = {}
         THEN [r \in DOMAIN rs \ {room} |-> rs[r]]
         ELSE [rs EXCEPT ![room] = @ \ {ws}]
    ELSE rs

\* The room index after connect(ws, room): joined only under `if room:`.
ConnectRooms(rs, ws, room) ==
    IF Truthy(room) THEN RoomsAdd(rs, ws, room) ELSE rs

\* Mutant of DisconnectRooms: disconnect forgets the room.
DisconnectRoomsKeepsMember(rs, ws, room) == rs

\* The room index after disconnect(ws, room): only the room given is left,
\* and only under `if room and room in self._rooms`.
DisconnectRooms(rs, ws, room) ==
    IF Truthy(room) /\ room \in DOMAIN rs THEN RoomsDiscard(rs, ws, room) ELSE rs

\* --------------------------------------------------------- registry actions
\* connect(ws, room, metadata); meta is the truthiness of the metadata dict.
Connect(ws, room, meta) ==
    /\ ws \in live
    /\ connections' = connections \cup {ws}
    /\ metadata' = IF meta THEN metadata \cup {ws} ELSE metadata
    /\ rooms' = ConnectRooms(rooms, ws, room)
    /\ UNCHANGED <<closed, live, bc, sessVars, obsVars>>

\* disconnect(ws, room).
Disconnect(ws, room) ==
    /\ ws \in live
    /\ connections' = connections \ {ws}
    /\ metadata' = metadata \ {ws}
    /\ rooms' = DisconnectRooms(rooms, ws, room)
    /\ UNCHANGED <<closed, live, bc, sessVars, obsVars>>

\* join_room(ws, room): no truthiness test, no test of global registration.
JoinRoom(ws, room) ==
    /\ ws \in live
    /\ rooms' = RoomsAdd(rooms, ws, room)
    /\ UNCHANGED <<connections, metadata, closed, live, bc, sessVars, obsVars>>

\* leave_room(ws, room).
LeaveRoom(ws, room) ==
    /\ ws \in live
    /\ rooms' = RoomsDiscard(rooms, ws, room)
    /\ UNCHANGED <<connections, metadata, closed, live, bc, sessVars, obsVars>>

\* Nothing holds a strong reference to ws: no websocket_handler frame (the
\* call has not started, or it is over) and no running broadcast (its
\* snapshot list, its exclude argument).
Unreferenced(ws) ==
    /\ pc[ws] \in {"new", "returned", "raised"}
    /\ \A k \in Callers :
          bc[k].st = "running" =>
              ws \notin bc[k].pending /\ bc[k].exclude # ws /\ bc[k].cur # ws

\* The last strong reference to a connection object goes away: every WeakSet
\* drops it. No dict key is deleted: neither the room's key in _rooms nor the
\* id(ws) key of _connection_metadata.
Finalize(ws) ==
    /\ ws \in live
    /\ Unreferenced(ws)
    /\ live' = live \ {ws}
    /\ connections' = connections \ {ws}
    /\ rooms' = [r \in DOMAIN rooms |-> rooms[r] \ {ws}]
    /\ UNCHANGED <<metadata, closed, bc, sessVars, obsVars>>

\* The channel of ws closes (close frame, transport error): ws.closed is True.
Close(ws) ==
    /\ ws \in live
    /\ ~closed[ws]
    /\ closed' = [closed EXCEPT ![ws] = TRUE]
    /\ UNCHANGED <<connections, rooms, metadata, live, bc, sessVars, obsVars>>

\* ---------------------------------------------------------------- broadcast
\* No broadcast call. cur is the connection whose send_str is awaited, msg
\* the tag of the message when its deliveries are logged; closedAtTurn and
\* goneAtTurn record the elements that were closed, or (in the one-step
\* loop body) no longer in the registry's target set, when the loop took
\* them.
IdleBc ==
    [st |-> "idle", room |-> NoRoom, exclude |-> NoConn, members |-> {},
     targets |-> {}, pending |-> {}, delivered |-> {}, failed |-> {},
     skipped |-> {}, closedAtTurn |-> {}, goneAtTurn |-> {}, sent |-> 0,
     cur |-> NoConn, msg |-> NoMsg]

\* Mutant of Targets: the room argument is ignored.
TargetsIgnoresRoom(conns, rs, room) == conns

\* `self._rooms.get(room, set()) if room else self._connections`, in the
\* registry (conns, rs).
Targets(conns, rs, room) ==
    IF Truthy(room)
    THEN IF room \in DOMAIN rs THEN rs[room] ELSE {}
    ELSE conns

\* ws is not, now, in the set a broadcast to room would address.
Unregistered(ws, room) == ws \notin Targets(connections, rooms, room)

\* Mutants of SkipTarget: one of the two tests is missing.
SkipTargetOnlyExcluded(ws, exclude) == ws = exclude
SkipTargetOnlyClosed(ws, exclude) == closed[ws]

\* Mutant of SkipTarget: a target that has left the global set is passed
\* over as well.
SkipTargetDeregistered(ws, exclude) ==
    closed[ws] \/ ws = exclude \/ ws \notin connections

\* `if ws.closed or ws is exclude: continue`
SkipTarget(ws, exclude) == closed[ws] \/ ws = exclude

\* What `await ws.send_str(...)` can do: complete, or raise (a write on a
\* closed or reset transport raises; an open one may fail as well).
SendOutcomes(ws) == IF closed[ws] THEN {"raise"} ELSE {"ok", "raise"}

\* Mutant of SendErrorCaught: no try/except around the send.
SendErrorEscapes == FALSE

\* `except Exception as e: _logger.warning(...)`: the error of a send is
\* caught inside the loop.
SendErrorCaught == TRUE

\* broadcast(message, room, exclude) called in the registry (conns, rs), up
\* to `for ws in list(connections)`: the target set is copied into a list
\* (targets; pending is the part of it not iterated yet). members records,
\* for the claims, who was in the addressed room (or in the global set for
\* room=None) at the call.
StartedBc(conns, rs, room, exclude) ==
    [IdleBc EXCEPT !.st = "running", !.room = room, !.exclude = exclude,
                   !.targets = Targets(conns, rs, room),
                   !.pending = Targets(conns, rs, room),
                   !.members = IF room = NoRoom THEN conns
                               ELSE IF room \in DOMAIN rs THEN rs[room] ELSE {}]

\* Mutant of Remaining: the loop iterates over the live set, not a copy.
RemainingLive(b, conns, rs) ==
    Targets(conns, rs, b.room) \ (b.delivered \cup b.failed \cup b.skipped)

\* `for ws in list(connections)`: the elements the loop of broadcast b has
\* still to take, in the registry (conns, rs): what is left of the copy made
\* at the call, whatever the registry has become.
Remaining(b, conns, rs) == b.pending

\* Mutant of RoomsGet: the lookup inserts the default under a missing key
\* (dict.setdefault).
RoomsSetdefault(rs, room) ==
    IF Truthy(room) /\ room \notin DOMAIN rs THEN rs @@ (room :> {}) ELSE rs

\* What `self._rooms.get(room, set())` leaves of the room index rs: dict.get
\* returns its default without storing it.
RoomsGet(rs, room) == rs

\* Application code calls broadcast.
BroadcastStart(k, room, exclude) ==
    /\ bc[k].st # "running"
    /\ bc' = [bc EXCEPT ![k] = StartedBc(connections, rooms, room, exclude)]
    /\ rooms' = RoomsGet(rooms, room)
    /\ UNCHANGED <<connections, metadata, closed, live, sessVars, obsVars>>

\* One iteration of the loop body for the next element ws of the list, when
\* its send_str does `out`: what it does to the call's frame.
LoopBody(k, ws, out) ==
    /\ bc[k].st = "running"
    /\ ws \in Remaining(bc[k], connections, rooms)
    /\ bc' = [bc EXCEPT ![k] =
            LET b == [bc[k] EXCEPT !.pending = @ \ {ws},
                                   !.closedAtTurn =
                                       IF closed[ws] THEN @ \cup {ws} ELSE @,
                                   !.goneAtTurn =
                                       IF Unregistered(ws, bc[k].room)
                                       THEN @ \cup {ws} ELSE @]
            IN  IF SkipTarget(ws, bc[k].exclude)
                THEN [b EXCEPT !.skipped = @ \cup {ws}]
                ELSE IF out = "ok"
                THEN [b EXCEPT !.delivered = @ \cup {ws}, !.sent = @ + 1]
                ELSE IF SendErrorCaught
                THEN [b EXCEPT !.failed = @ \cup {ws}]
                ELSE [b EXCEPT !.failed = @ \cup {ws}, !.st = "raised"]]
    /\ UNCHANGED <<connections, rooms, metadata, closed, live, sessVars>>

\* The same iteration with what the recipient gets left out of the picture.
BroadcastStep(k, ws) ==
    /\ \E out \in SendOutcomes(ws) : LoopBody(k, ws, out)
    /\ UNCHANGED obsVars

\* The loop of task k's broadcast is over: `return sent` comes next.
BcDone(k) ==
    bc[k].st = "running" /\ bc[k].pending = {} /\ bc[k].cur = NoConn

\* Application code gets its broadcast's result; the call's frame is gone.
BroadcastReturn(k) ==
    /\ BcDone(k)
    /\ bc' = [bc EXCEPT ![k] = IdleBc]
    /\ UNCHANGED <<connections, rooms, metadata, closed, live, sessVars, obsVars>>

\* ------------------------------------------- broadcast, one send in two steps
\* Task k calls broadcast(message, room) with its next message, tagged
\* <<k, n>> for the n-th message of k.
BroadcastMsg(k, room) ==
    /\ bc[k].st # "running"
    /\ issued[k] < MaxMsgs
    /\ bc' = [bc EXCEPT ![k] =
                [StartedBc(connections, rooms, room, NoConn)
                    EXCEPT !.msg = <<k, issued[k] + 1>>]]
    /\ issued' = [issued EXCEPT ![k] = @ + 1]
    /\ UNCHANGED <<connections, rooms, metadata, closed, live, sessVars,
                   inbox, snd, last, stalled, frames, rlVars>>

\* The peer of ws stops reading: the transport's buffer fills up and stays
\* full, so a send_str to ws suspends in its drain.
Stall(ws) ==
    /\ ws \in live
    /\ ws \notin stalled
    /\ stalled' = stalled \cup {ws}
    /\ UNCHANGED <<connections, rooms, metadata, closed, live, bc, sessVars,
                   inbox, snd, last, issued, frames, rlVars>>

\* The loop of task k's broadcast takes the next element ws of its list:
\* `if ws.closed or ws is exclude: continue`, else send_str(ws) is called
\* and awaited.
SendBegin(k, ws) ==
    /\ bc[k].st = "running"
    /\ bc[k].cur = NoConn
    /\ ws \in Remaining(bc[k], connections, rooms)
    /\ bc' = [bc EXCEPT ![k] =
          LET b == [bc[k] EXCEPT !.pending = @ \ {ws},
                                 !.closedAtTurn =
                                     IF closed[ws] THEN @ \cup {ws} ELSE @]
          IN  IF SkipTarget(ws, bc[k].exclude)
              THEN [b EXCEPT !.skipped = @ \cup {ws}]
              ELSE [b EXCEPT !.cur = ws]]
    /\ UNCHANGED <<connections, rooms, metadata, closed, live, sessVars, obsVars>>

\* The awaited send_str to ws can complete: its peer reads; or the channel
\* has closed under it, or the server has dropped the transport at the end
\* of the websocket_handler call of ws (then the send raises).
CanComplete(ws) ==
    ws \notin stalled \/ closed[ws] \/ pc[ws] \in {"returned", "raised"}

\* What the awaited send_str to ws does when it completes.
CompletedOutcomes(ws) == IF ws \in stalled THEN {"raise"} ELSE SendOutcomes(ws)

\* Mutant of Logged: the newest message overtakes the ones sent before.
LoggedFirst(box, m) == IF m = NoMsg THEN box ELSE <<m>> \o box

\* Mutant of Logged: the message is handed over twice.
LoggedTwice(box, m) == IF m = NoMsg THEN box ELSE box \o <<m, m>>

\* The log of a connection after its send_str has taken message m.
Logged(box, m) == IF m = NoMsg THEN box ELSE Append(box, m)

\* The awaited send_str of task k's broadcast completes or raises; `sent +=
\* 1` or the except clause; the loop goes on.
SendEnd(k) ==
    /\ bc[k].st = "running"
    /\ bc[k].cur # NoConn
    /\ CanComplete(bc[k].cur)
    /\ \E out \in CompletedOutcomes(bc[k].cur) :
         LET ws == bc[k].cur
             b == [bc[k] EXCEPT !.cur = NoConn]
         IN  IF out = "ok"
             THEN /\ bc' = [bc EXCEPT ![k] =
                           [b EXCEPT !.delivered = @ \cup {ws}, !.sent = @ + 1]]
                  /\ inbox' = [inbox EXCEPT ![ws] = Logged(@, bc[k].msg)]
             ELSE /\ bc' = [bc EXCEPT ![k] =
                           [b EXCEPT !.failed = @ \cup {ws},
                                     !.st = IF SendErrorCaught THEN @ ELSE "raised"]]
                  /\ UNCHANGED inbox
    /\ UNCHANGED <<connections, rooms, metadata, closed, live, sessVars,
                   snd, last, stalled, issued, frames, rlVars>>

\* ------------------------------------------------------------------ send_to
\* No send_to call made yet by a task.
IdleSnd ==
    [st |-> "idle", target |-> NoConn, wasClosed |-> FALSE,
     attempted |-> FALSE, sendRaised |-> FALSE, ret |-> FALSE, handed |-> {}]

\* Mutant of SendToErrorCaught: no try/except around the send of send_to.
SendToErrorEscapes == FALSE

\* `except Exception as e: _logger.warning(...); return False` of send_to.
SendToErrorCaught == TRUE

\* send_to(ws, message) from its call to its end, when the send does `out`:
\* `if ws.closed: return False`, else send_str and True, or False when the
\* send raised. handed: the connections whose send_str took the message.
SendToCall(ws, out) ==
    IF closed[ws]
    THEN [IdleSnd EXCEPT !.st = "returned", !.target = ws, !.wasClosed = TRUE]
    ELSE IF out = "ok"
    THEN [IdleSnd EXCEPT !.st = "returned", !.target = ws, !.attempted = TRUE,
                         !.ret = TRUE, !.handed = {ws}]
    ELSE [IdleSnd EXCEPT !.st = IF SendToErrorCaught THEN "returned" ELSE "raised",
                         !.target = ws, !.attempted = TRUE, !.sendRaised = TRUE]

\* Task k calls send_to(ws, message) and gets its result.
SendTo(k, ws) ==
    /\ ws \in live
    /\ \E out \in SendOutcomes(ws) :
          snd' = [snd EXCEPT ![k] = SendToCall(ws, out)]
    /\ UNCHANGED <<connections, rooms, metadata, closed, live, bc, sessVars,
                   inbox, last, stalled, issued, frames, rlVars>>

\* ------------------------------------------------------------ session loop
\* The endpoints of WebSocketApiController, and "custom": websocket_handler
\* called with application callbacks of its caller's own.
Endpoints == {"echo", "broadcast", "room", "notifications", "custom"}
\* websocket_handler called with no callback at all: `# Echo by default`.
DefaultEndpoint == "default"
\* Room names a client of the room endpoint can choose in the URL.
UrlRooms == {"A", "broadcast"}
\* Topics a client of the notifications endpoint can name.
Topics == {"t1", "t2"}
\* JSON numbers a client can put in a topics list, named by their text:
\* json.loads makes the int 1 of "1" and the float 1.0 of "1.0", and str()
\* gives the texts back.
NumberTopics == {"1", "1.0"}
\* Python's == on topics: a string equals itself only, and 1 == 1.0.
PyEq(a, b) == a = b \/ (a \in NumberTopics /\ b \in NumberTopics)
\* f"notifications:{topic}": the prefix, then str(topic).
TopicRoom(t) == "notifications:" \o t
\* subscribed_topics.add(t): a set keeps the element it has when an equal
\* one is added.
SetAdd(S, t) == IF \E x \in S : PyEq(x, t) THEN S ELSE S \cup {t}
\* subscribed_topics.discard(t): the element equal to t goes.
SetDiscard(S, t) == {x \in S : ~PyEq(x, t)}

\* Mutant of HandlerRoom: the rooms of the room endpoint get a prefix.
HandlerRoomPrefixed(e, r) ==
    CASE e = "broadcast" -> "broadcast"
      [] e = "room" -> "room:" \o r
      [] e = "custom" -> r
      [] OTHER -> NoRoom

\* The room argument each endpoint passes to websocket_handler.
HandlerRoom(e, r) ==
    CASE e = "broadcast" -> "broadcast"
      [] e = "room" -> r
      [] e = "custom" -> r
      [] OTHER -> NoRoom

\* Text frames a client can send: not JSON at all; JSON that is no object
\* (data.get raises AttributeError); or a JSON object, by its "action".
Frames ==
    {[kind |-> k, topics |-> {}] :
        k \in {"malformed", "nonobject", "message", "list_users", "ping", "other"}}
    \cup {[kind |-> k, topics |-> T] :
            k \in {"subscribe", "unsubscribe"}, T \in SUBSET Topics}

\* The room index after join_room / leave_room of every topic of T, in turn.
RECURSIVE JoinTopics(_, _, _)
JoinTopics(rs, ws, T) ==
    IF T = {} THEN rs
    ELSE LET t == CHOOSE x \in T : TRUE
         IN  JoinTopics(RoomsAdd(rs, ws, TopicRoom(t)), ws, T \ {t})

RECURSIVE LeaveTopics(_, _, _)
LeaveTopics(rs, ws, T) ==
    IF T = {} THEN rs
    ELSE LET t == CHOOSE x \in T : TRUE
         IN  LeaveTopics(RoomsDiscard(rs, ws, TopicRoom(t)), ws, T \ {t})

\* subscribed_topics after add / discard of every topic of T, in turn.
RECURSIVE AddTopics(_, _)
AddTopics(S, T) ==
    IF T = {} THEN S
    ELSE LET t == CHOOSE x \in T : TRUE
         IN  AddTopics(SetAdd(S, t), T \ {t})

RECURSIVE DiscardTopics(_, _)
DiscardTopics(S, T) ==
    IF T = {} THEN S
    ELSE LET t == CHOOSE x \in T : TRUE
         IN  DiscardTopics(SetDiscard(S, t), T \ {t})

\* What an application callback of the custom endpoint can do.
CallbackOutcomes == {"ok", "raise"}

\* The end of websocket_handler: `return ws`, or the propagating exception.
Ended(raising) == IF raising THEN "raised" ELSE "returned"

\* `await ws_manager.disconnect(ws, room)`, the last statement of finally,
\* run by the session of c in the room index rs; then the call ends.
FinallyDisconnect(c, rs, raising) ==
    /\ connections' = connections \ {c}
    /\ metadata' = metadata \ {c}
    /\ rooms' = DisconnectRooms(rs, c, sroom[c])
    /\ pc' = [pc EXCEPT ![c] = Ended(raising)]

\* Mutant of EnterFinally: disconnect(ws, room) placed before on_disconnect.
EnterFinallyDisconnectFirst(c, why, raising) ==
    /\ cause' = [cause EXCEPT ![c] = why]
    /\ exc' = [exc EXCEPT ![c] = raising]
    /\ connections' = connections \ {c}
    /\ metadata' = metadata \ {c}
    /\ rooms' = DisconnectRooms(rooms, c, sroom[c])
    /\ bc' = [bc EXCEPT ![c] = StartedBc(connections', rooms', sroom[c], c)]
    /\ pc' = [pc EXCEPT ![c] = "on_disconnect"]
    /\ UNCHANGED topics

\* The finally block from its start to its first suspension: on_disconnect
\* if given, then disconnect. raising: an exception of on_message is
\* propagating; why: what ended the receive loop.
EnterFinally(c, why, raising) ==
    /\ cause' = [cause EXCEPT ![c] = why]
    /\ exc' = [exc EXCEPT ![c] = raising]
    /\ CASE ep[c] = "room" ->
              \* on_disconnect: broadcast user_left to the room, exclude=ws
              /\ bc' = [bc EXCEPT ![c] =
                          StartedBc(connections, rooms, sroom[c], c)]
              /\ pc' = [pc EXCEPT ![c] = "on_disconnect"]
              /\ UNCHANGED <<connections, rooms, metadata, topics>>
         [] ep[c] = "notifications" ->
              \* on_disconnect: leave_room for every subscribed topic
              /\ FinallyDisconnect(c, LeaveTopics(rooms, c, topics[c]), raising)
              /\ UNCHANGED <<bc, topics>>
         [] ep[c] = "custom" ->
              \* on_disconnect of the caller: returns, or raises and so
              \* ends the finally block before disconnect
              \E out \in CallbackOutcomes :
                 IF out = "ok"
                 THEN /\ FinallyDisconnect(c, rooms, raising)
                      /\ UNCHANGED <<bc, topics>>
                 ELSE /\ pc' = [pc EXCEPT ![c] = "raised"]
                      /\ UNCHANGED <<connections, rooms, metadata, bc, topics>>
         [] OTHER ->
              \* no on_disconnect
              /\ FinallyDisconnect(c, rooms, raising)
              /\ UNCHANGED <<bc, topics>>

\* websocket_handler from ws.prepare to the first suspension of on_connect:
\* the handshake completes, connect(ws, room) registers the connection, then
\* on_connect runs if given. on_connect is called before `try:`.
Handshake(c, e, r) ==
    /\ pc[c] = "new"
    /\ c \in live
    /\ ep' = [ep EXCEPT ![c] = e]
    /\ sroom' = [sroom EXCEPT ![c] = HandlerRoom(e, r)]
    /\ connections' = connections \cup {c}
    /\ rooms' = ConnectRooms(rooms, c, HandlerRoom(e, r))
    /\ CASE e = "room" ->
              \* on_connect: broadcast user_joined to the room, exclude=ws
              /\ bc' = [bc EXCEPT ![c] =
                          StartedBc(connections', rooms', HandlerRoom(e, r), c)]
              /\ pc' = [pc EXCEPT ![c] = "on_connect"]
              /\ UNCHANGED cause
         [] e = "custom" ->
              \E out \in CallbackOutcomes :
                 /\ pc' = [pc EXCEPT ![c] = IF out = "ok" THEN "open" ELSE "raised"]
                 /\ cause' = [cause EXCEPT ![c] =
                                IF out = "ok" THEN @ ELSE "on_connect"]
                 /\ UNCHANGED bc
         [] OTHER ->
              \* echo, broadcast: no on_connect; notifications: one send_to
              /\ pc' = [pc EXCEPT ![c] = "open"]
              /\ UNCHANGED <<bc, cause>>
    /\ UNCHANGED <<metadata, closed, live, topics, exc>>

\* The same steps with the replies to the new connection left out of the
\* picture.
Accept(c, e, r) ==
    /\ Handshake(c, e, r)
    /\ UNCHANGED obsVars

\* on_connect of the room endpoint after its broadcast: send_to(welcome),
\* then the receive loop is entered.
Welcomed(c) ==
    /\ pc[c] = "on_connect"
    /\ BcDone(c)
    /\ bc' = [bc EXCEPT ![c] = IdleBc]
    /\ pc' = [pc EXCEPT ![c] = "open"]
    /\ UNCHANGED <<connections, rooms, metadata, closed, live,
                   ep, sroom, topics, cause, exc>>

\* The same step with the welcome reply left out of the picture.
ConnectDone(c) ==
    /\ Welcomed(c)
    /\ UNCHANGED obsVars

\* What on_message does with a JSON payload, by endpoint: "send" (one
\* send_to and return), "bcast" (a broadcast to the session's room),
\* "sub" / "unsub", or "raise".
OnMessage(e, m, out) ==
    CASE e = "echo" -> "send"
      [] e = DefaultEndpoint -> "send"
      [] e = "broadcast" -> "bcast"
      [] e = "room" ->
            IF m.kind = "nonobject" THEN "raise"
            ELSE IF m.kind = "message" THEN "bcast" ELSE "send"
      [] e = "notifications" ->
            IF m.kind = "nonobject" THEN "raise"
            ELSE IF m.kind = "subscribe" THEN "sub"
            ELSE IF m.kind = "unsubscribe" THEN "unsub" ELSE "send"
      [] OTHER -> IF out = "ok" THEN "send" ELSE "raise"

\* One iteration of `async for msg in ws` for a TEXT frame m, up to its
\* first suspension: json.loads, then on_message (or the Invalid JSON reply);
\* what it does to the registry and to the session.
TextFrame(c, m) ==
    /\ pc[c] = "open"
    /\ ~closed[c]
    /\ \E out \in CallbackOutcomes :
        LET act == IF m.kind = "malformed" THEN "send"
                   ELSE OnMessage(ep[c], m, out)
        IN  CASE act = "bcast" ->
                   /\ bc' = [bc EXCEPT ![c] =
                               StartedBc(connections, rooms, sroom[c], NoConn)]
                   /\ pc' = [pc EXCEPT ![c] = "on_message"]
                   /\ UNCHANGED <<connections, rooms, metadata, topics, cause, exc>>
              [] act = "sub" ->
                   /\ topics' = [topics EXCEPT ![c] = AddTopics(@, m.topics)]
                   /\ rooms' = JoinTopics(rooms, c, m.topics)
                   /\ UNCHANGED <<connections, metadata, bc, pc, cause, exc>>
              [] act = "unsub" ->
                   /\ topics' = [topics EXCEPT ![c] = DiscardTopics(@, m.topics)]
                   /\ rooms' = LeaveTopics(rooms, c, m.topics)
                   /\ UNCHANGED <<connections, metadata, bc, pc, cause, exc>>
              [] act = "raise" -> EnterFinally(c, "on_message", TRUE)
              [] OTHER ->
                   UNCHANGED <<connections, rooms, metadata, bc, pc, topics,
                               cause, exc>>
    /\ UNCHANGED <<closed, live, ep, sroom>>

\* The same iteration with the replies to the sender left out of the picture.
Receive(c, m) ==
    /\ TextFrame(c, m)
    /\ UNCHANGED obsVars

\* No frame processed yet by a session.
NoFrame == [kind |-> "none", invoked |-> FALSE, errors |-> << >>, afterBad |-> FALSE]

\* Mutant of InvalidJsonReplies: the parse error is dropped without a reply.
InvalidJsonNoReply(c, out) == << >>

\* `except json.JSONDecodeError: await ws_manager.send_to(ws, {"error":
\* "Invalid JSON"})`: the send_to calls made for a frame that does not parse.
InvalidJsonReplies(c, out) == <<SendToCall(c, out)>>

\* What the peer of c and the callbacks see of the iteration for frame m:
\* whether on_message was called, and the Invalid JSON replies sent.
FrameRecord(c, m, out) ==
    [kind |-> m.kind,
     invoked |-> m.kind # "malformed",
     errors |-> IF m.kind = "malformed" THEN InvalidJsonReplies(c, out) ELSE << >>,
     afterBad |-> last[c].afterBad \/ last[c].kind = "malformed"]

\* The iteration for frame m with what the peer sees of it.
ReceiveReply(c, m) ==
    /\ TextFrame(c, m)
    /\ \E out \in SendOutcomes(c) :
          last' = [last EXCEPT ![c] = FrameRecord(c, m, out)]
    /\ UNCHANGED <<inbox, snd, stalled, issued, frames, rlVars>>

\* on_message returns after its broadcast; the loop waits for the next frame.
MessageDone(c) ==
    /\ pc[c] = "on_message"
    /\ BcDone(c)
    /\ bc' = [bc EXCEPT ![c] = IdleBc]
    /\ pc' = [pc EXCEPT ![c] = "open"]
    /\ UNCHANGED <<connections, rooms, metadata, closed, live,
                   ep, sroom, topics, cause, exc, obsVars>>

\* The receive loop ends: the channel is closed, after a close frame
\* (why = "close") or a transport error (why = "error", logged first).
LoopExit(c, why) ==
    /\ pc[c] = "open"
    /\ closed[c]
    /\ EnterFinally(c, why, FALSE)
    /\ UNCHANGED <<closed, live, ep, sroom, obsVars>>

\* on_disconnect of the room endpoint returns after its broadcast; then
\* disconnect(ws, room) and the call ends.
DisconnectDone(c) ==
    /\ pc[c] = "on_disconnect"
    /\ BcDone(c)
    /\ bc' = [bc EXCEPT ![c] = IdleBc]
    /\ FinallyDisconnect(c, rooms, exc[c])
    /\ UNCHANGED <<closed, live, ep, sroom, topics, cause, exc, obsVars>>

\* ------------------------------------------------------- JSON and envelopes
\* A text frame as a peer wrote it: its syntax ("object"; "scalar", a JSON
\* value that is no object; "invalid", not JSON), the members of an object
\* as <<name, value>> pairs in the order of the text (a name may occur more
\* than once), the value of a scalar.
JsonText(syntax, members, atom) ==
    [syntax |-> syntax, members |-> members, atom |-> atom]

\* The names of the members of an object text.
Names(members) == {members[i][1] : i \in 1..Len(members)}

\* The value a dict built from the members holds for name n: each member is
\* stored in turn, so the last occurrence of a name wins.
LastOf(members, n) ==
    LET i == CHOOSE i \in 1..Len(members) :
                /\ members[i][1] = n
                /\ \A j \in (i + 1)..Len(members) : members[j][1] # n
    IN  members[i][2]

\* json.loads of a text that parses: a dict for an object, else the value.
json_loads(text) ==
    [object |-> text.syntax = "object",
     dict |-> [n \in Names(text.members) |-> LastOf(text.members, n)],
     atom |-> text.atom]

\* The members json.dumps writes for a dict, one per key.
RECURSIVE Members(_, _)
Members(d, keys) ==
    IF keys = {} THEN << >>
    ELSE LET n == CHOOSE x \in keys : TRUE
         IN  <<<<n, d[n]>>>> \o Members(d, keys \ {n})

\* json.dumps(message) of send_to and broadcast, for a message dict.
json_dumps(message) == JsonText("object", Members(message, DOMAIN message), 0)

\* Mutant of EchoEnvelope: the payload is replaced by an empty object.
EchoEnvelopeNoPayload(data) ==
    [type |-> "echo", data |-> json_loads(JsonText("object", << >>, 0))]

\* {"type": "echo", "data": data}
EchoEnvelope(data) == [type |-> "echo", data |-> data]

\* {"error": "Invalid JSON"}
InvalidJson == [error |-> "Invalid JSON"]

\* Mutant of BroadcastEnvelope: the message goes out as an echo.
BroadcastEnvelopeAsEcho(data) == [type |-> "echo", data |-> data]

\* The messages of the endpoints. Their "timestamp" member is the clock's
\* reading at the call, which nothing here depends on: it is left out.
BroadcastEnvelope(data) == [type |-> "broadcast", data |-> data]
UserJoined(room, users) == [type |-> "user_joined", room |-> room, users |-> users]
\* Mutant of Welcome: the joiner is not counted.
WelcomeWithoutJoiner(room, users) ==
    [type |-> "welcome", room |-> room, users |-> users - 1]
Welcome(room, users) == [type |-> "welcome", room |-> room, users |-> users]
UserLeft(room, users) == [type |-> "user_left", room |-> room, users |-> users]
RoomMessage(room, text) == [type |-> "room_message", room |-> room, text |-> text]
UserCount(room, count) == [type |-> "user_count", room |-> room, count |-> count]
UnknownAction(action) == [error |-> "Unknown action: " \o action]
Connected == [type |-> "connected"]
\* list(subscribed_topics): the elements of the set, in no particular order.
Subscribed(T) == [type |-> "subscribed", topics |-> T]
Unsubscribed(T) == [type |-> "unsubscribed", topics |-> T]
Pong == [type |-> "pong"]
Notification(topic, data) ==
    [type |-> "notification", topic |-> topic, data |-> data]

\* data.get(name, default) on a dict.
Get(data, name, default) ==
    IF name \in DOMAIN data.dict THEN data.dict[name] ELSE default

\* What the loop and the callbacks of endpoint e make of a text frame: its
\* kind (not JSON; no object; else the action of the object, "message" when
\* the room endpoint finds none, None elsewhere) and its topics.
FrameOf(text, e) ==
    LET data == json_loads(text)
    IN  [kind |-> IF text.syntax = "invalid" THEN "malformed"
                  ELSE IF ~data.object THEN "nonobject"
                  ELSE IF e = "room" THEN Get(data, "action", "message")
                  ELSE Get(data, "action", "None"),
         topics |-> IF data.object THEN Get(data, "topics", {}) ELSE {}]

\* The message of the one send_to that answers text frame `text` of session
\* c, when the iteration answers by a send_to; ts is subscribed_topics at
\* that send_to.
Reply(c, text, ts) ==
    LET data == json_loads(text)
        m == FrameOf(text, ep[c])
    IN  CASE m.kind = "malformed" -> InvalidJson
          [] ep[c] = "room" ->
                IF m.kind = "list_users"
                THEN UserCount(sroom[c], get_room_count(sroom[c]))
                ELSE UnknownAction(m.kind)
          [] ep[c] = "notifications" ->
                CASE m.kind = "subscribe" -> Subscribed(ts)
                  [] m.kind = "unsubscribe" -> Unsubscribed(ts)
                  [] m.kind = "ping" -> Pong
                  [] OTHER -> UnknownAction(m.kind)
          [] OTHER -> EchoEnvelope(data)

\* The iteration for text frame `text` answers by a send_to: every case but
\* a broadcast and a callback that raises.
Answers(c, text) ==
    LET m == FrameOf(text, ep[c])
    IN  m.kind = "malformed" \/ OnMessage(ep[c], m, "ok") \in {"send", "sub", "unsub"}

\* The message of the broadcast task k is inside: the one application code
\* passed; or the one the callback of session k built in the step that made
\* the call, from the frame it was handling and from get_room_count(room)
\* read then, which is the number of members the call found.
Envelope(k) ==
    IF k = AppTask THEN bc[k].msg
    ELSE CASE pc[k] = "on_connect" ->
                UserJoined(bc[k].room, Cardinality(bc[k].members))
           [] pc[k] = "on_disconnect" ->
                UserLeft(bc[k].room, Cardinality(bc[k].members) - 1)
           [] ep[k] = "room" ->
                RoomMessage(bc[k].room,
                    Get(json_loads(frames[k][Len(frames[k])]), "text", ""))
           [] OTHER ->
                BroadcastEnvelope(json_loads(frames[k][Len(frames[k])]))

\* The log of connection ws after a send_to or a broadcast iteration that
\* wrote message to it (sent = TRUE) or did not.
Written(box, ws, sent, message) ==
    IF sent THEN [box EXCEPT ![ws] = Append(@, json_dumps(message))] ELSE box

\* The messages connection c has been written, as its peer parses them.
Received(c) == [i \in 1..Len(inbox[c]) |-> json_loads(inbox[c][i]).dict]

\* websocket_handler up to the first suspension of on_connect, with the
\* reply of the notifications endpoint's on_connect.
ApiAccept(c, e, r) ==
    /\ Handshake(c, e, r)
    /\ \E out \in SendOutcomes(c) :
          inbox' = Written(inbox, c,
                       e = "notifications" /\ SendToCall(c, out).ret, Connected)
    /\ UNCHANGED <<snd, last, stalled, issued, frames, rlVars>>

\* The end of on_connect of the room endpoint, with its welcome reply.
ApiWelcome(c) ==
    /\ Welcomed(c)
    /\ \E out \in SendOutcomes(c) :
          inbox' = Written(inbox, c, SendToCall(c, out).ret,
                       Welcome(sroom[c], get_room_count(sroom[c])))
    /\ UNCHANGED <<snd, last, stalled, issued, frames, rlVars>>

\* One iteration of `async for msg in ws` for text frame `text`, with the
\* send_to that answers the sender. A session takes at most MaxMsgs frames.
ApiFrame(c, text) ==
    /\ Len(frames[c]) < MaxMsgs
    /\ TextFrame(c, FrameOf(text, ep[c]))
    /\ frames' = [frames EXCEPT ![c] = Append(@, text)]
    /\ \E out \in SendOutcomes(c) :
          /\ snd' = [snd EXCEPT ![c] =
                        IF Answers(c, text) THEN SendToCall(c, out) ELSE @]
          /\ inbox' = Written(inbox, c,
                          Answers(c, text) /\ SendToCall(c, out).ret,
                          Reply(c, text, topics'[c]))
    /\ UNCHANGED <<last, stalled, issued, rlVars>>

\* One iteration of the loop of task k's broadcast, with what it writes.
ApiDeliver(k, ws) ==
    /\ \E out \in SendOutcomes(ws) :
          /\ LoopBody(k, ws, out)
          /\ inbox' = Written(inbox, ws,
                          ~SkipTarget(ws, bc[k].exclude) /\ out = "ok",
                          Envelope(k))
    /\ UNCHANGED <<snd, last, stalled, issued, frames, rlVars>>

\* Mutant of NotificationRoom: every notification goes to one room.
NotificationRoomShared(topic) == "notifications:"

\* room=f"notifications:{topic}" of send_notification.
NotificationRoom(topic) == TopicRoom(topic)

\* Application code calls send_notification(topic, message); it makes at
\* most MaxMsgs calls.
SendNotification(topic, message) ==
    /\ bc[AppTask].st # "running"
    /\ issued[AppTask] < MaxMsgs
    /\ bc' = [bc EXCEPT ![AppTask] =
                [StartedBc(connections, rooms, NotificationRoom(topic), NoConn)
                    EXCEPT !.msg = Notification(topic, message)]]
    /\ issued' = [issued EXCEPT ![AppTask] = @ + 1]
    /\ UNCHANGED <<connections, rooms, metadata, closed, live, sessVars,
                   inbox, snd, last, stalled, frames, rlVars>>

\* ------------------------------------------------------------ rate limiter
\* RateLimiter(requests, window): the limit and the window, in ticks.
requests == 2
window == 3
\* The clock's last reading the model goes to.
MaxClock == 4

\* The addresses requests come from, and _get_client_key for each.
Clients == {"10.0.0.1", "10.0.0.2"}
ClientKey(ip) == "ratelimit:" \o ip
RateKeys == {ClientKey(ip) : ip \in Clients}

\* The store at a call: redis_client.client is None ("absent"); the pipeline
\* runs ("up"); execute raises with the pipeline not run ("raises") or with
\* the pipeline run and its results lost ("raises_late").
RedisStates == {"up", "absent", "raises", "raises_late"}

\* pipe.zremrangebyscore(key, lo, hi): the scores in [lo, hi] go.
zremrangebyscore(z, lo, hi) == {x \in z : ~(lo <= x /\ x <= hi)}
\* pipe.zadd(key, {str(now): now}): one member per value of now.
zadd(z, now) == z \cup {now}
\* pipe.zcard(key)
zcard(z) == Cardinality(z)

\* The sorted set of a key after the pipeline of a call at `now`.
Pipeline(z, now) == zadd(zremrangebyscore(z, 0, now - window), now)

Max(a, b) == IF a >= b THEN a ELSE b

\* Mutant of Allowed: the limit itself is refused.
AllowedBelow(request_count) == request_count < requests

\* `allowed = request_count <= self.requests`
Allowed(request_count) == request_count <= requests

\* The info dict of a call that counted request_count at `now`.
RateInfo(request_count, now) ==
    ("X-RateLimit-Limit" :> ToString(requests))
    @@ ("X-RateLimit-Remaining" :> ToString(Max(0, requests - request_count)))
    @@ ("X-RateLimit-Reset" :> ToString(now + window))

\* No is_allowed call made yet.
NoVerdict ==
    [key |-> "", at |-> 0, redis |-> "uncalled", allowed |-> TRUE, info |-> << >>]

\* `return True, {}`: no store, or the except clause (fail open).
FailOpen(key, now, redis) ==
    [key |-> key, at |-> now, redis |-> redis, allowed |-> TRUE, info |-> << >>]

\* time.time() moves on.
Tick ==
    /\ clock < MaxClock
    /\ clock' = clock + 1
    /\ UNCHANGED <<connections, rooms, metadata, closed, live, bc, sessVars,
                   inbox, snd, last, stalled, issued, frames,
                   zsets, recorded, verdict>>

\* is_allowed(request) for a request from ip, with the store in state redis.
IsAllowed(ip, redis) ==
    LET key == ClientKey(ip)
        now == clock
        z == Pipeline(zsets[key], now)
        ran == redis \in {"up", "raises_late"}
    IN  /\ zsets' = IF ran THEN [zsets EXCEPT ![key] = z] ELSE zsets
        /\ recorded' = IF ran THEN [recorded EXCEPT ![key] = @ \cup {now}]
                       ELSE recorded
        /\ verdict' = IF redis = "up"
                      THEN [key |-> key, at |-> now, redis |-> redis,
                            allowed |-> Allowed(zcard(z)),
                            info |-> RateInfo(zcard(z), now)]
                      ELSE FailOpen(key, now, redis)
        /\ UNCHANGED <<connections, rooms, metadata, closed, live, bc, sessVars,
                       inbox, snd, last, stalled, issued, frames, clock>>

\* ----------------------------------------------------------- specifications
\* WebSocketManager.__init__: empty registry; the connection objects exist,
\* open and unregistered.
Init ==
    /\ connections = {}
    /\ rooms = << >>
    /\ metadata = {}
    /\ closed = [c \in Conns |-> FALSE]
    /\ live = Conns
    /\ bc = [k \in Callers |-> IdleBc]
    /\ pc = [c \in Conns |-> "new"]
    /\ ep = [c \in Conns |-> "none"]
    /\ sroom = [c \in Conns |-> NoRoom]
    /\ topics = [c \in Conns |-> {}]
    /\ cause = [c \in Conns |-> "none"]
    /\ exc = [c \in Conns |-> FALSE]
    /\ inbox = [c \in Conns |-> << >>]
    /\ snd = [k \in Callers |-> IdleSnd]
    /\ last = [c \in Conns |-> NoFrame]
    /\ stalled = {}
    /\ issued = [k \in Callers |-> 0]
    /\ frames = [c \in Conns |-> << >>]
    /\ clock = 0
    /\ zsets = [key \in RateKeys |-> {}]
    /\ recorded = [key \in RateKeys |-> {}]
    /\ verdict = NoVerdict

Next ==
    \/ \E ws \in Conns, room \in RoomArgs, meta \in BOOLEAN : Connect(ws, room, meta)
    \/ \E ws \in Conns, room \in RoomArgs : Disconnect(ws, room)
    \/ \E ws \in Conns, room \in RoomNames : JoinRoom(ws, room)
    \/ \E ws \in Conns, room \in RoomNames : LeaveRoom(ws, room)
    \/ \E ws \in Conns : Finalize(ws)

Spec == Init /\ [][Next]_vars

\* Room names the registry calls of SpecBroadcast use; broadcast itself is
\* called with every room argument.
BcastRooms == {"A", "B"}

NextBroadcast ==
    \/ \E ws \in Conns, room \in BcastRooms \cup {NoRoom} : Connect(ws, room, FALSE)
    \/ \E ws \in Conns, room \in BcastRooms \cup {NoRoom} : Disconnect(ws, room)
    \/ \E ws \in Conns, room \in BcastRooms : JoinRoom(ws, room)
    \/ \E ws \in Conns, room \in BcastRooms : LeaveRoom(ws, room)
    \/ \E ws \in Conns : Close(ws)
    \/ \E room \in RoomArgs, exclude \in Conns \cup {NoConn} :
          BroadcastStart(AppTask, room, exclude)
    \/ \E ws \in Conns : BroadcastStep(AppTask, ws)
    \/ BroadcastReturn(AppTask)

SpecBroadcast == Init /\ [][NextBroadcast]_vars

NextSession ==
    \/ \E c \in Conns, e \in Endpoints, r \in UrlRooms : Accept(c, e, r)
    \/ \E c \in Conns : ConnectDone(c)
    \/ \E c \in Conns, m \in Frames : Receive(c, m)
    \/ \E c \in Conns : MessageDone(c)
    \/ \E c \in Conns : Close(c)
    \/ \E c \in Conns, why \in {"close", "error"} : LoopExit(c, why)
    \/ \E c \in Conns : DisconnectDone(c)
    \/ \E c \in Conns, ws \in Conns : BroadcastStep(c, ws)
    \/ \E c \in Conns : Finalize(c)

SpecSession == Init /\ [][NextSession]_vars

\* send_to called by every task, for connections registered or not (send_to
\* does not read the registry), between channel closes.
NextSendTo ==
    \/ \E ws \in Conns : Connect(ws, NoRoom, FALSE)
    \/ \E ws \in Conns : Close(ws)
    \/ \E k \in Callers, ws \in Conns : SendTo(k, ws)

SpecSendTo == Init /\ [][NextSendTo]_vars

\* Endpoints, URL rooms and frames of SpecFrames.
FrameEndpoints == {"echo", "custom"}
FrameRooms == {"A"}
TextFrames == {m \in Frames : m.kind \in {"malformed", "message"}}

\* Sessions whose peers send text frames, well-formed or not.
NextFrames ==
    \/ \E c \in Conns, e \in FrameEndpoints, r \in FrameRooms : Accept(c, e, r)
    \/ \E c \in Conns, m \in TextFrames : ReceiveReply(c, m)
    \/ \E c \in Conns : Close(c)
    \/ \E c \in Conns, why \in {"close", "error"} : LoopExit(c, why)

SpecFrames == Init /\ [][NextFrames]_vars

\* Room arguments of SpecStall.
StallRooms == {"A", NoRoom}

\* Broadcasts of the application task, each send in two steps, to peers
\* that may stop reading.
NextStall ==
    \/ \E ws \in Conns, room \in StallRooms : Connect(ws, room, FALSE)
    \/ \E ws \in Conns, room \in StallRooms : Disconnect(ws, room)
    \/ \E ws \in Conns : Close(ws)
    \/ \E ws \in Conns : Stall(ws)
    \/ \E room \in StallRooms, exclude \in Conns \cup {NoConn} :
          BroadcastStart(AppTask, room, exclude)
    \/ \E ws \in Conns : SendBegin(AppTask, ws)
    \/ SendEnd(AppTask)
    \/ BroadcastReturn(AppTask)

\* The event loop runs a task that is ready: a loop iteration that can be
\* taken is taken, and a send that can complete completes.
FairBroadcast(k) ==
    /\ WF_vars(\E ws \in Conns : SendBegin(k, ws))
    /\ WF_vars(SendEnd(k))

SpecStall == Init /\ [][NextStall]_vars /\ FairBroadcast(AppTask)

\* Endpoints, URL room and frames of SpecSessionStall.
StallEndpoints == {"echo", "room"}
StallUrlRooms == {"A"}
StallFrames == {m \in Frames : m.kind \in {"message", "list_users", "nonobject"}}

\* Sessions of the echo and room endpoints, every send of their broadcasts
\* in two steps, with peers that may stop reading.
NextSessionStall ==
    \/ \E c \in Conns, e \in StallEndpoints, r \in StallUrlRooms : Accept(c, e, r)
    \/ \E c \in Conns : ConnectDone(c)
    \/ \E c \in Conns, m \in StallFrames : Receive(c, m)
    \/ \E c \in Conns : MessageDone(c)
    \/ \E c \in Conns : Close(c)
    \/ \E c \in Conns : Stall(c)
    \/ \E c \in Conns, why \in {"close", "error"} : LoopExit(c, why)
    \/ \E c \in Conns : DisconnectDone(c)
    \/ \E c \in Conns, ws \in Conns : SendBegin(c, ws)
    \/ \E c \in Conns : SendEnd(c)

\* The event loop runs the session task of c whenever it is ready: its
\* receive wait ends when the channel has closed, a callback whose
\* broadcast is over returns, and the broadcast's loop and sends go on.
FairSession(c) ==
    /\ WF_vars(\E why \in {"close", "error"} : LoopExit(c, why))
    /\ WF_vars(ConnectDone(c))
    /\ WF_vars(MessageDone(c))
    /\ WF_vars(DisconnectDone(c))
    /\ FairBroadcast(c)

SpecSessionStall ==
    Init /\ [][NextSessionStall]_vars /\ \A c \in Conns : FairSession(c)

\* The room of SpecOrder, and its tasks: the application task and the
\* session task of one connection.
OrderRoom == "A"
OrderCallers == {AppTask, 1}

\* Every task issues tagged broadcasts to one room, one after the other,
\* while connections come and go and sends succeed or fail.
NextOrder ==
    \/ \E ws \in Conns : Connect(ws, OrderRoom, FALSE)
    \/ \E ws \in Conns : Disconnect(ws, OrderRoom)
    \/ \E k \in OrderCallers : BroadcastMsg(k, OrderRoom)
    \/ \E k \in OrderCallers, ws \in Conns : SendBegin(k, ws)
    \/ \E k \in OrderCallers : SendEnd(k)
    \/ \E k \in OrderCallers : BroadcastReturn(k)

SpecOrder == Init /\ [][NextOrder]_vars

\* The same, with the event loop running every task that is ready.
SpecOrderFair == SpecOrder /\ \A k \in OrderCallers : FairBroadcast(k)

\* The callers of websocket_handler on the echo path: the echo endpoint, and
\* a caller that passes no callback.
EchoEndpoints == {"echo", DefaultEndpoint}
\* Text frames the peer of connection c sends on the echo path: an object
\* (one that names a member twice), a number, and a text that is not JSON.
\* The peer puts its own mark c into its payloads.
EchoTexts(c) ==
    {JsonText("object", <<<<"message", 0>>, <<"message", c>>>>, 0),
     JsonText("scalar", << >>, c),
     JsonText("invalid", << >>, 0)}

NextEcho ==
    \/ \E c \in Conns, e \in EchoEndpoints : ApiAccept(c, e, NoRoom)
    \/ \E c \in Conns : \E text \in EchoTexts(c) : ApiFrame(c, text)
    \/ \E ws \in Conns : Close(ws)
    \/ \E c \in Conns, why \in {"close", "error"} : LoopExit(c, why)

SpecEcho == Init /\ [][NextEcho]_vars

\* Clients of the broadcast endpoint next to clients of the echo endpoint.
PublicEndpoints == {"broadcast", "echo"}
\* Text frames the peer of connection c sends as its n-th: an object that
\* carries the mark <<c, n>>.
MarkedTexts(c, n) == {JsonText("object", <<<<"message", <<c, n>>>>>>, 0)}

NextPublic ==
    \/ \E c \in Conns, e \in PublicEndpoints : ApiAccept(c, e, NoRoom)
    \/ \E c \in Conns : \E text \in MarkedTexts(c, Len(frames[c]) + 1) :
          ApiFrame(c, text)
    \/ \E k \in Conns, ws \in Conns : ApiDeliver(k, ws)
    \/ \E c \in Conns : MessageDone(c)
    \/ \E ws \in Conns : Close(ws)
    \/ \E c \in Conns, why \in {"close", "error"} : LoopExit(c, why)

SpecPublic == Init /\ [][NextPublic]_vars

NextRate ==
    \/ Tick
    \/ \E ip \in Clients, redis \in RedisStates : IsAllowed(ip, redis)

SpecRate == Init /\ [][NextRate]_vars

\* Rooms the clients of the room endpoint name in SpecRoom.
ChatRooms == {"A"}
\* Number of frames a session takes in SpecRoom and in SpecNotice.
MaxFrames == 1
\* Text frames a peer sends on the room endpoint in SpecRoom: list_users,
\* and a JSON number (data.get then raises AttributeError).
RoomTexts ==
    {JsonText("object", <<<<"action", "list_users">>>>, 0),
     JsonText("scalar", << >>, 0)}

\* Task k has called broadcast and has not reached a send_str yet: it has
\* awaited nothing since the call, so it still holds the event loop.
NotYielded(k) ==
    bc[k].st = "running" /\ bc[k].delivered \cup bc[k].failed = {}

\* The event loop can run task k: no other task holds it.
Scheduled(k) == \A j \in Callers \ {k} : ~NotYielded(j)

\* The event loop is between two task steps (a channel's close is noticed
\* there).
LoopIdle == \A j \in Callers : ~NotYielded(j)

NextRoom ==
    \/ \E c \in Conns, r \in ChatRooms : Scheduled(c) /\ ApiAccept(c, "room", r)
    \/ \E c \in Conns : Scheduled(c) /\ ApiWelcome(c)
    \/ \E c \in Conns, text \in RoomTexts :
          Scheduled(c) /\ Len(frames[c]) < MaxFrames /\ ApiFrame(c, text)
    \/ \E k \in Conns, ws \in Conns : Scheduled(k) /\ ApiDeliver(k, ws)
    \/ \E ws \in Conns : LoopIdle /\ Close(ws)
    \/ \E c \in Conns : Scheduled(c) /\ LoopExit(c, "close")
    \/ \E c \in Conns : Scheduled(c) /\ DisconnectDone(c)

SpecRoom == Init /\ [][NextRoom]_vars

\* Topics the clients of SpecNotify name: a string and two numbers.
NotifyTopics == {"t1"} \cup NumberTopics
\* Text frames the peer of connection c sends on the notifications endpoint
\* in SpecNotify: the first client subscribes and unsubscribes with a list
\* of one topic, the others subscribe to the number 1, if at all.
NotifyTexts(c) ==
    IF c = 1
    THEN {JsonText("object", <<<<"action", a>>, <<"topics", {t}>>>>, 0) :
             a \in {"subscribe", "unsubscribe"}, t \in NotifyTopics}
    ELSE {JsonText("object", <<<<"action", "subscribe">>, <<"topics", {"1"}>>>>, 0)}

NextNotify ==
    \/ \E c \in Conns : ApiAccept(c, "notifications", NoRoom)
    \/ \E c \in Conns : \E text \in NotifyTexts(c) : ApiFrame(c, text)
    \/ \E ws \in Conns : Close(ws)
    \/ \E c \in Conns : LoopExit(c, "close")

SpecNotify == Init /\ [][NextNotify]_vars

\* Topics application code notifies in SpecNotice; nobody subscribes to the
\* second.
NoticeTopics == {"t1", "t2"}
\* Text frames a peer sends on the notifications endpoint in SpecNotice.
NoticeTexts ==
    {JsonText("object", <<<<"action", a>>, <<"topics", {"t1"}>>>>, 0) :
        a \in {"subscribe", "unsubscribe"}}
\* The message of the n-th send_notification call.
Notice(n) == [n |-> n]

NextNotice ==
    \/ \E c \in Conns : ApiAccept(c, "notifications", NoRoom)
    \/ \E c \in Conns, text \in NoticeTexts :
          Len(frames[c]) < MaxFrames /\ ApiFrame(c, text)
    \/ \E topic \in NoticeTopics :
          SendNotification(topic, Notice(issued[AppTask] + 1))
    \/ \E ws \in Conns : ApiDeliver(AppTask, ws)
    \/ BroadcastReturn(AppTask)
    \/ \E ws \in Conns : Close(ws)
    \/ \E c \in Conns : LoopExit(c, "close")

SpecNotice == Init /\ [][NextNotice]_vars

\* The broadcast endpoint next to the room endpoint, whose clients name
\* their room "broadcast".
SharedEndpoints == {"broadcast", "room"}
SharedRoom == "broadcast"
\* The text frame the peer of connection c sends: a message with the mark c
\* as its text.
SharedTexts(c) ==
    {JsonText("object", <<<<"action", "message">>, <<"text", c>>>>, 0)}

NextShared ==
    \/ \E c \in Conns, e \in SharedEndpoints :
          Scheduled(c) /\ ApiAccept(c, e, SharedRoom)
    \/ \E c \in Conns : Scheduled(c) /\ ApiWelcome(c)
    \/ \E c \in Conns : \E text \in SharedTexts(c) :
          Scheduled(c) /\ Len(frames[c]) < MaxFrames /\ ApiFrame(c, text)
    \/ \E k \in Conns, ws \in Conns : Scheduled(k) /\ ApiDeliver(k, ws)
    \/ \E c \in Conns : Scheduled(c) /\ MessageDone(c)
    \/ \E ws \in Conns : LoopIdle /\ Close(ws)
    \/ \E c \in Conns : Scheduled(c) /\ LoopExit(c, "close")
    \/ \E c \in Conns : Scheduled(c) /\ DisconnectDone(c)

SpecShared == Init /\ [][NextShared]_vars

\* The tasks of SpecEffect that call broadcast: the application task and the
\* session task of connection 1.
EffectCallers == {AppTask, 1}
\* The one room SpecEffect registers connections in; broadcast is called
\* for it and for a room nobody is in.
EffectRoom == "A"
EffectRoomArgs == {"A", "B"}

\* broadcast and send_to called between registrations (with metadata),
\* deregistrations and channel closes.
NextEffect ==
    \/ \E ws \in Conns : Connect(ws, EffectRoom, TRUE)
    \/ \E ws \in Conns : Disconnect(ws, EffectRoom)
    \/ \E ws \in Conns : Close(ws)
    \/ \E k \in EffectCallers, room \in EffectRoomArgs :
          BroadcastStart(k, room, NoConn)
    \/ \E k \in EffectCallers, ws \in Conns : BroadcastStep(k, ws)
    \/ \E k \in EffectCallers : BroadcastReturn(k)
    \/ \E ws \in Conns : SendTo(AppTask, ws)

SpecEffect == Init /\ [][NextEffect]_vars

\* ------------------------------------------------------------------ claims

\* C1: after every connect / disconnect / join_room / leave_room, every
\* member of a room is a member of the global connection set.
C1_RoomMembersAreConnected ==
    \A r \in DOMAIN rooms : rooms[r] \subseteq connections

\* C4: when disconnect(c) or disconnect(c, room=r) returns, c is a member of
\* no room.
C4_DisconnectLeavesEveryRoom ==
    [][\A ws \in Conns, room \in RoomArgs :
          Disconnect(ws, room) => \A r \in DOMAIN rooms' : ws \notin rooms'[r]]_vars

\* C5: disconnect of a connection that is not registered (also a second
\* disconnect) and leave_room of a room the connection is not in change
\* neither the global set, nor the room index, nor the metadata map.
C5_AbsentRemovalIsNoOp ==
    [][/\ \A ws \in Conns, room \in RoomArgs :
            (ws \notin connections /\ Disconnect(ws, room)) => UNCHANGED regVars
       /\ \A ws \in Conns, room \in RoomNames :
            ((room \notin DOMAIN rooms \/ ws \notin rooms[room]) /\ LeaveRoom(ws, room))
                => UNCHANGED regVars]_vars

\* C6: every room that list_rooms() returns has at least one member, and
\* get_room_count is 0 for every room that is not listed.
C6_NoEmptyRoomListed ==
    /\ \A r \in list_rooms : get_room_count(r) >= 1
    /\ \A r \in RoomNames \ list_rooms : get_room_count(r) = 0

\* c is indexed: in the global set or in some room.
Indexed(c) == c \in connections \/ \E r \in DOMAIN rooms : c \in rooms[r]

ApiEndpoints == {"echo", "broadcast", "room", "notifications"}

\* C2: once the session loop of an endpoint has ended after a close frame
\* or a transport error, its connection is neither in the global set nor
\* in any room.
C2_EndedSessionNotIndexed ==
    \A c \in Conns :
        (/\ pc[c] \in {"returned", "raised"}
         /\ cause[c] \in {"close", "error"}
         /\ ep[c] \in ApiEndpoints) => ~Indexed(c)

\* C2 witness: a notifications session that had subscribed and a room
\* session have both ended, one on a close frame, one on a transport error.
C2_Witness ==
    \E c, d \in Conns :
        /\ pc[c] = "returned" /\ ep[c] = "notifications"
        /\ topics[c] # {} /\ cause[c] = "close"
        /\ pc[d] = "returned" /\ ep[d] = "room" /\ cause[d] = "error"

\* C3: after websocket_handler has ended with the error of a callback, the
\* connection is registered nowhere.
C3_CallbackErrorDeregisters ==
    \A c \in Conns : pc[c] = "raised" => ~Indexed(c)

\* C7: a send that raises does not end the broadcast: the call never ends
\* with that error, every target that was open at its turn and is not the
\* excluded one has had its send attempted when the loop is over, and the
\* value returned is the number of sends that did not raise.
C7_SendFailureDoesNotAbort ==
    \A k \in Callers :
        /\ bc[k].st # "raised"
        /\ BcDone(k) =>
             /\ bc[k].delivered \cup bc[k].failed =
                    bc[k].targets \ (bc[k].closedAtTurn \cup {bc[k].exclude})
             /\ bc[k].delivered \cap bc[k].failed = {}
             /\ bc[k].sent = Cardinality(bc[k].delivered)

\* C7 witness: a broadcast is over in which one send raised and another
\* was delivered.
C7_Witness ==
    /\ BcDone(AppTask)
    /\ bc[AppTask].failed # {}
    /\ bc[AppTask].delivered # {}
    /\ bc[AppTask].sent = 1

\* C8: broadcast never sends to a target it finds closed; when exactly one
\* of its N targets is closed, none is excluded and no send raises, it
\* delivers to the N-1 others and returns N-1.
C8_ClosedTargetsSkipped ==
    \A k \in Callers :
        /\ (bc[k].delivered \cup bc[k].failed) \cap bc[k].closedAtTurn = {}
        /\ (/\ BcDone(k)
            /\ Cardinality(bc[k].closedAtTurn) = 1
            /\ bc[k].exclude \notin bc[k].targets
            /\ bc[k].failed = {}) =>
               /\ bc[k].delivered = bc[k].targets \ bc[k].closedAtTurn
               /\ bc[k].sent = Cardinality(bc[k].targets) - 1
               /\ bc[k].st # "raised"

\* C8 witness: a broadcast to two targets, one of them closed, is over and
\* returns 1.
C8_Witness ==
    /\ BcDone(AppTask)
    /\ Cardinality(bc[AppTask].targets) = MaxConns
    /\ Cardinality(bc[AppTask].closedAtTurn) = 1
    /\ bc[AppTask].exclude = NoConn
    /\ bc[AppTask].failed = {}
    /\ bc[AppTask].sent = MaxConns - 1

\* C9: the excluded connection is never sent the message and is not
\* counted in the value returned.
C9_ExcludedNeverDelivered ==
    \A k \in Callers :
        /\ bc[k].exclude \notin bc[k].delivered \cup bc[k].failed
        /\ bc[k].sent = Cardinality(bc[k].delivered \ {bc[k].exclude})

\* C9 witness: a broadcast to a room is over whose excluded connection is
\* an open member of the room, and another member got the message.
C9_Witness ==
    /\ BcDone(AppTask)
    /\ bc[AppTask].room = "A"
    /\ bc[AppTask].exclude \in bc[AppTask].targets
    /\ bc[AppTask].exclude \notin bc[AppTask].closedAtTurn
    /\ bc[AppTask].delivered # {}

C11_SendToReportsByValue ==
    \A k \in Callers :
        /\ snd[k].st # "raised"
        /\ snd[k].st = "returned" =>
             /\ snd[k].handed \subseteq {snd[k].target}
             /\ snd[k].ret <=> snd[k].handed = {snd[k].target}
             /\ snd[k].ret <=> (snd[k].attempted /\ ~snd[k].sendRaised)
             /\ snd[k].wasClosed => (~snd[k].ret /\ ~snd[k].attempted)
             /\ snd[k].sendRaised => ~snd[k].ret

\* C11 witness: three calls have returned: true after a send, false for a
\* closed connection, false after a send that raised.
C11_Witness ==
    \E i, j, k \in Callers :
        /\ snd[i].st = "returned" /\ snd[i].ret /\ snd[i].handed # {}
        /\ snd[j].st = "returned" /\ snd[j].wasClosed /\ ~snd[j].ret
        /\ snd[k].st = "returned" /\ snd[k].sendRaised /\ ~snd[k].ret

\* A frame of the session of c that does not parse.
Malformed == [kind |-> "malformed", topics |-> {}]

\* C12: the iteration for a text frame that does not parse makes exactly
\* one send_to call, the Invalid JSON reply to the sender, which the sender
\* gets unless the send raises; on_message is not called for the frame; and
\* the session stays in its receive loop, its connection open and
\* registered in the global set and in its room.
C12_MalformedFrameGetsOneReply ==
    [][\A c \in Conns :
          ReceiveReply(c, Malformed) =>
             /\ ~last'[c].invoked
             /\ Len(last'[c].errors) = 1
             /\ last'[c].errors[1].st = "returned"
             /\ last'[c].errors[1].target = c
             /\ last'[c].errors[1].attempted
             /\ last'[c].errors[1].handed = {c} \/ last'[c].errors[1].sendRaised
             /\ pc'[c] = "open"
             /\ ~closed'[c]
             /\ c \in connections'
             /\ Truthy(sroom'[c]) =>
                   sroom'[c] \in DOMAIN rooms' /\ c \in rooms'[sroom'[c]]]_vars

\* C12 witness: a session has had a frame that did not parse, has handed a
\* later frame to on_message, and is waiting for the next one.
C12_Witness ==
    \E c \in Conns :
        /\ last[c].afterBad
        /\ last[c].invoked
        /\ pc[c] = "open"

\* c is registered as its session registered it: in the global set, and in
\* the room of the session when it has one.
Registered(c) ==
    /\ c \in connections
    /\ Truthy(sroom[c]) => (sroom[c] \in DOMAIN rooms /\ c \in rooms[sroom[c]])

\* C13: whatever ends the receive loop (close frame, transport error, error
\* of on_message), the session of an endpoint with an on_disconnect hook
\* goes to that hook first; from the handshake until the hook is over the
\* connection is in the global set and in its room, and it leaves them only
\* in the step that follows the hook.
C13_HookBeforeDeregistration ==
    /\ [](\A c \in Conns :
            pc[c] \in {"on_connect", "open", "on_message", "on_disconnect"}
                => Registered(c))
    /\ [][\A c \in Conns :
            /\ (ep[c] = "room" /\ pc[c] = "open" /\ pc'[c] # "open"
                    /\ pc'[c] # "on_message")
                  => (pc'[c] = "on_disconnect" /\ Registered(c)')
            /\ (ep[c] = "room" /\ c \in connections /\ c \notin connections')
                  => (pc[c] = "on_disconnect" /\ BcDone(c))]_vars

\* C13 witness: two room sessions are in on_disconnect, one after an error
\* of on_message, one after a transport error, both still registered.
C13_Witness ==
    \E c, d \in Conns :
        /\ pc[c] = "on_disconnect" /\ cause[c] = "on_message" /\ Registered(c)
        /\ pc[d] = "on_disconnect" /\ cause[d] = "error" /\ Registered(d)

\* The state of the session of c in the terms of the state machine:
\* Connecting until the handshake is over, Open from registration to the
\* end of the receive loop, Closing in on_disconnect, Closed when the
\* websocket_handler call has ended.
Phase(c) ==
    CASE pc[c] = "new" -> "Connecting"
      [] pc[c] \in {"on_connect", "open", "on_message"} -> "Open"
      [] pc[c] = "on_disconnect" -> "Closing"
      [] OTHER -> "Closed"

\* The pairs (from, to) of a state and a later state of the state machine.
Later ==
    {<<"Connecting", "Open">>, <<"Connecting", "Closing">>,
     <<"Connecting", "Closed">>, <<"Open", "Closing">>, <<"Open", "Closed">>,
     <<"Closing", "Closed">>}

\* C14, the order and the causes: a session never goes back to an earlier
\* state, it is registered from the moment the handshake completes and not
\* before, and it leaves Open only on a close frame, a transport error or
\* the error of a callback.
C14_OrderAndCauses ==
    /\ [](\A c \in Conns :
            /\ Phase(c) = "Connecting" => ~Indexed(c)
            /\ Phase(c) \in {"Open", "Closing"} => Registered(c))
    /\ [][\A c \in Conns :
            /\ Phase(c)' # Phase(c) => <<Phase(c), Phase(c)'>> \in Later
            /\ (Phase(c) = "Open" /\ Phase(c)' # "Open") =>
                  \/ cause'[c] \in {"close", "error"} /\ closed[c]
                  \/ cause'[c] = "on_message"]_vars

\* C14: the order and the causes above, and a session is Closed only once
\* deregistration is done: the connection of a Closed session is in the
\* global set no more and in no room, and never again.
C14_SessionStateMachine ==
    /\ C14_OrderAndCauses
    /\ [](\A c \in Conns : Phase(c) = "Closed" => ~Indexed(c))

\* C15: a target of a running broadcast whose turn has not come, that is
\* open and whose peer reads, eventually has its turn (the message is handed
\* to it), unless it closes or stalls first, also when the send to another
\* target never completes.
C15_StalledPeerDoesNotStallOthers ==
    \A k \in Callers, t \in Conns :
        (/\ bc[k].st = "running"
         /\ t \in bc[k].pending
         /\ t # bc[k].exclude
         /\ ~closed[t]
         /\ t \notin stalled)
        ~> (t \notin bc[k].pending \/ closed[t] \/ t \in stalled)

\* C16: when a task issues broadcast m1 and later broadcast m2 to the same
\* room, no connection gets m2 before m1, whatever the other tasks
\* broadcast and whichever connections come and go in between.
C16_PerRecipientOrder ==
    \A ws \in Conns :
        \A i, j \in 1..Len(inbox[ws]) :
            (i < j /\ inbox[ws][i][1] = inbox[ws][j][1])
                => inbox[ws][i][2] < inbox[ws][j][2]

\* C16 witness: a connection has got both messages of the application
\* task, with a message of another task between them.
C16_Witness ==
    \E ws \in Conns :
        \E i, j, l \in 1..Len(inbox[ws]) :
            /\ i < l /\ l < j
            /\ inbox[ws][i] = <<AppTask, 1>>
            /\ inbox[ws][j] = <<AppTask, 2>>
            /\ inbox[ws][l][1] # AppTask

\* C17: the connections a broadcast sends to are those of the copy it makes
\* of its target set when it is called: a connection that connects or joins
\* the room after that is neither sent the message nor counted.
C17_SnapshotDelivery ==
    \A k \in Callers :
        /\ bc[k].room # "" => bc[k].targets = bc[k].members
        /\ bc[k].pending \cup bc[k].delivered \cup bc[k].failed \cup bc[k].skipped
               \subseteq bc[k].targets
        /\ bc[k].sent <= Cardinality(bc[k].targets)

\* C17 witness: while a broadcast to room A still has a member to take, a
\* connection that was not in the copy is an open, registered member of A.
C17_Witness ==
    /\ bc[AppTask].st = "running"
    /\ bc[AppTask].room = "A"
    /\ bc[AppTask].pending # {}
    /\ "A" \in DOMAIN rooms
    /\ \E w \in (rooms["A"] \cap connections) \ bc[AppTask].targets : ~closed[w]

\* t is half-removed: gone from the global set but still in a room.
HalfRemoved(t) ==
    t \notin connections /\ \E r \in DOMAIN rooms : t \in rooms[r]

\* C18: when disconnect removes a registered connection that a broadcast in
\* progress has still to take, the broadcast does not find it half-removed
\* afterwards; no broadcast ends with an error; and when its loop is over
\* every connection of its list has had its turn.
C18_RemovalAtomicForBroadcast ==
    /\ [](\A k \in Callers :
            /\ bc[k].st # "raised"
            /\ BcDone(k) =>
                  bc[k].delivered \cup bc[k].failed \cup bc[k].skipped
                      = bc[k].targets)
    /\ [][\A ws \in Conns, room \in RoomArgs :
            (/\ Disconnect(ws, room)
             /\ ws \in connections
             /\ \E k \in Callers : bc[k].st = "running" /\ ws \in bc[k].pending)
                => ~HalfRemoved(ws)']_vars

\* The number of times message m is in the log box.
Count(box, m) == Cardinality({i \in 1..Len(box) : box[i] = m})

\* C19: with broadcasts to one room running at the same time in different
\* tasks, no call ends with an error, no connection gets a message twice,
\* a call none of whose sends raised returns the number of members the room
\* had when it was called and each of those members has its message exactly
\* once, and every call's loop comes to its end.
C19_ConcurrentBroadcasts ==
    /\ [](\A k \in OrderCallers :
            /\ bc[k].st # "raised"
            /\ \A w \in Conns, l \in OrderCallers, n \in 1..MaxMsgs :
                  Count(inbox[w], <<l, n>>) <= 1
            /\ (BcDone(k) /\ bc[k].failed = {}) =>
                  /\ bc[k].sent = Cardinality(bc[k].members)
                  /\ bc[k].delivered = bc[k].members
                  /\ \A w \in bc[k].members : Count(inbox[w], bc[k].msg) = 1)
    /\ \A k \in OrderCallers : (bc[k].st = "running") ~> BcDone(k)

\* C19 witness: the loops of two calls that ran at the same time are over,
\* each returns 2, and both members of the room have both messages.
C19_Witness ==
    /\ \A k \in OrderCallers :
          BcDone(k) /\ bc[k].sent = MaxConns /\ bc[k].failed = {}
    /\ \A w \in Conns : \A k \in OrderCallers : Count(inbox[w], bc[k].msg) = 1

\* C20: once the channel of a session in its receive wait has closed, the
\* session leaves the wait and its connection is eventually in the global
\* set no more and in no room, also when peers of its room have stopped
\* reading.
C20_CloseEndsSession ==
    \A c \in Conns :
        (closed[c] /\ pc[c] = "open")
            ~> (pc[c] \in {"returned", "raised"} /\ ~Indexed(c))

\* a is b with some of its elements left out, the order kept.
RECURSIVE IsSubseq(_, _)
IsSubseq(a, b) ==
    IF Len(a) = 0 THEN TRUE
    ELSE IF Len(b) = 0 THEN FALSE
    ELSE IF Head(a) = Head(b) THEN IsSubseq(Tail(a), Tail(b))
    ELSE IsSubseq(a, Tail(b))

\* What the peer of c expects for the frames it has sent on the echo path,
\* one answer per frame: the payload it sent under "data" of an echo message,
\* or the error for a text that is not JSON.
EchoExpected(c) ==
    [i \in 1..Len(frames[c]) |->
        IF frames[c][i].syntax = "invalid" THEN [error |-> "Invalid JSON"]
        ELSE [type |-> "echo", data |-> json_loads(frames[c][i])]]

\* C21: on the echo path (the echo endpoint, a loop run without on_message)
\* what a connection is written is, in the order of its frames, at most one
\* answer per frame it sent, each well-formed frame's answer being a message
\* of type "echo" whose data is the payload of that frame as sent; nothing of
\* another connection's frames reaches it; and when the send_to of the last
\* frame returned True, that frame's answer is the last message written.
C21_EchoRoundTrip ==
    \A c \in Conns : ep[c] \in EchoEndpoints =>
        /\ IsSubseq(Received(c), EchoExpected(c))
        /\ (snd[c].st = "returned" /\ snd[c].ret) =>
              /\ Len(inbox[c]) >= 1
              /\ Received(c)[Len(inbox[c])] = EchoExpected(c)[Len(frames[c])]

\* Both connections have had two different well-formed frames echoed, one of
\* them an object naming a member twice.
C21_Witness ==
    \A c \in Conns :
        /\ ep[c] \in EchoEndpoints
        /\ Len(inbox[c]) = 2
        /\ frames[c][1] = JsonText("object", <<<<"message", 0>>, <<"message", c>>>>, 0)
        /\ frames[c][2] = JsonText("scalar", << >>, c)
        /\ Received(c)[1].type = "echo"
        /\ Received(c)[2].type = "echo"

\* The broadcast message the client of session c expects for the frame its
\* session is handling.
SentBroadcast(c) ==
    [type |-> "broadcast", data |-> json_loads(frames[c][Len(frames[c])])]

\* Session c of the broadcast endpoint has finished the broadcast of a frame.
BroadcastDone(c) == ep[c] = "broadcast" /\ pc[c] = "on_message" /\ BcDone(c)

RecordedInWindow ==
    Cardinality({t \in recorded[verdict.key] :
                    verdict.at - window < t /\ t <= verdict.at})

\* C23: a call whose pipeline ran and returned allows the request exactly
\* when the number of requests recorded for the key within the last `window`
\* ticks, that request included, is at most `requests`, and reports
\* max(0, requests - count) as the remaining quota; a call without a store,
\* or whose pipeline raises, allows the request and returns no info.
C23_SlidingWindow ==
    /\ verdict.redis = "up" =>
          /\ verdict.allowed <=> (RecordedInWindow <= requests)
          /\ verdict.info["X-RateLimit-Remaining"]
                = ToString(Max(0, requests - RecordedInWindow))
    /\ verdict.redis \in {"absent", "raises", "raises_late"} =>
          /\ verdict.allowed
          /\ DOMAIN verdict.info = {}

\* A request has been refused with nothing remaining while an older request
\* of the same client, recorded, has left the window.
C23_Witness ==
    /\ verdict.redis = "up"
    /\ ~verdict.allowed
    /\ verdict.info["X-RateLimit-Remaining"] = "0"
    /\ \E t \in recorded[verdict.key] : t <= verdict.at - window

\* The "type" of a message a peer has parsed; "error" for the error replies.
TypeOf(m) == IF "type" \in DOMAIN m THEN m.type ELSE "error"

\* The number of messages of type t connection c has been written.
Typed(c, t) ==
    Cardinality({i \in 1..Len(inbox[c]) : TypeOf(Received(c)[i]) = t})

\* The sessions of the room endpoint other than c that have joined room r.
OtherJoiners(c, r) ==
    {k \in Conns \ {c} : ep[k] = "room" /\ pc[k] # "new" /\ sroom[k] = r}

\* C24: on the room endpoint the connection is in the global set and in its
\* room while on_connect runs; the user_joined broadcast of on_connect
\* excludes the joiner, carries the size of the room with the joiner in it,
\* and when its loop is over every other member that was open at its turn and
\* whose send did not fail has been written it; a connection is never
\* written more user_joined messages than other sessions have joined its
\* room, nor more than one welcome; and the users of every user_joined and
\* welcome and the count of every user_count are at least 1.
C24_JoinerRegisteredFirst ==
    \A c \in Conns : ep[c] = "room" =>
        /\ pc[c] = "on_connect" =>
              /\ c \in connections
              /\ sroom[c] \in DOMAIN rooms /\ c \in rooms[sroom[c]]
              /\ bc[c].exclude = c /\ c \in bc[c].members
              /\ c \notin bc[c].delivered
              /\ Envelope(c) = [type |-> "user_joined", room |-> sroom[c],
                                users |-> Cardinality(bc[c].members)]
              /\ \A ws \in bc[c].delivered : Count(Received(ws), Envelope(c)) >= 1
              /\ BcDone(c) =>
                    bc[c].delivered =
                        bc[c].members \ ({c} \cup bc[c].closedAtTurn \cup bc[c].failed)
        /\ Typed(c, "user_joined") <= Cardinality(OtherJoiners(c, sroom[c]))
        /\ Typed(c, "welcome") <= 1
        /\ \A i \in 1..Len(inbox[c]) :
              LET m == Received(c)[i]
              IN  /\ TypeOf(m) \in {"user_joined", "welcome"} =>
                        m.room = sroom[c] /\ m.users >= 1
                  /\ TypeOf(m) = "user_count" => m.room = sroom[c] /\ m.count >= 1

\* A second client has joined a room: the first was written user_joined with
\* users 2, the joiner its welcome with users 2 and, later, a user_count of
\* 2, and no user_joined.
C24_Witness ==
    \E c \in Conns, ws \in Conns :
        /\ c # ws /\ ep[c] = "room" /\ ep[ws] = "room"
        /\ Count(Received(ws), [type |-> "user_joined", room |-> "A", users |-> 2]) = 1
        /\ Count(Received(c), [type |-> "welcome", room |-> "A", users |-> 2]) = 1
        /\ Count(Received(c), [type |-> "user_count", room |-> "A", count |-> 2]) = 1
        /\ Typed(c, "user_joined") = 0

\* C30: when a session of the room endpoint deregisters after an
\* on_disconnect whose user_left message was written to somebody, the users
\* of that message is the number of members its room has once the session
\* is deregistered.
C30_UserLeftCountsRemaining ==
    [][\A c \in Conns :
          (/\ ep[c] = "room"
           /\ pc[c] = "on_disconnect"
           /\ pc'[c] \in {"returned", "raised"}
           /\ bc[c].delivered # {})
          => Envelope(c).users =
                IF sroom[c] \in DOMAIN rooms'
                THEN Cardinality(rooms'[sroom[c]]) ELSE 0]_vars

\* c is a member of room r.
Member(c, r) == r \in DOMAIN rooms /\ c \in rooms[r]

Notifying == bc[AppTask].st = "running"

\* C26: send_notification(topic, message) addresses the members of room
\* notifications:<topic> at the call; a connection has been written its
\* notification message once if the loop delivered to it, which it does to
\* members only, and not at all otherwise; when the loop is over every
\* member that was open at its turn and whose send did not fail has been
\* delivered to, and the value to return is their number, 0 when the topic
\* had no subscriber; and the call leaves the room index as it is.
C26_NotificationReachesSubscribers ==
    /\ [](Notifying =>
            /\ bc[AppTask].targets = bc[AppTask].members
            /\ bc[AppTask].delivered \subseteq bc[AppTask].members
            /\ \A ws \in Conns :
                  Count(Received(ws), bc[AppTask].msg) =
                      IF ws \in bc[AppTask].delivered THEN 1 ELSE 0
            /\ bc[AppTask].sent = Cardinality(bc[AppTask].delivered)
            /\ BcDone(AppTask) =>
                  bc[AppTask].delivered =
                      bc[AppTask].members
                          \ (bc[AppTask].failed \cup bc[AppTask].closedAtTurn))
    /\ [][(~Notifying /\ Notifying') =>
            /\ rooms' = rooms
            /\ bc'[AppTask].room = "notifications:" \o bc'[AppTask].msg.topic
            /\ bc'[AppTask].members =
                  {ws \in Conns : Member(ws, "notifications:" \o bc'[AppTask].msg.topic)}]_vars

\* A notification for a topic with two subscribers has been written to both
\* and 2 is returned, after one for a topic without subscribers returned 0.
C26_Witness ==
    /\ BcDone(AppTask)
    /\ bc[AppTask].msg = [type |-> "notification", topic |-> "t1", data |-> Notice(2)]
    /\ bc[AppTask].sent = 2
    /\ \A ws \in Conns : Count(Received(ws), bc[AppTask].msg) = 1

\* The session of c is between its registration and its deregistration.
InSession(c) == pc[c] \in {"on_connect", "open", "on_message", "on_disconnect"}

\* C27: the broadcast endpoint's room and the room a client of the room
\* endpoint names "broadcast" are one room. The sessions of both endpoints
\* are members of it; every broadcast a session of either endpoint makes
\* (the "broadcast" message of the one, the user_joined, room_message and
\* user_left messages of the other) addresses all the members the room has
\* when it is called, whatever their endpoint, and when its loop is over it has been written
\* to every member that was not excluded, was open at its turn and whose
\* send did not fail.
C27_SharedRoomNamespace ==
    /\ [](\A c \in Conns :
            /\ InSession(c) => Member(c, SharedRoom)
            /\ bc[c].st = "running" =>
                  /\ bc[c].room = SharedRoom
                  /\ TypeOf(Envelope(c)) \in
                        IF ep[c] = "broadcast" THEN {"broadcast"}
                        ELSE {"user_joined", "room_message", "user_left"}
                  /\ \A ws \in bc[c].delivered :
                        Count(Received(ws), Envelope(c)) >= 1
                  /\ BcDone(c) =>
                        bc[c].delivered =
                            bc[c].members \ ({bc[c].exclude} \cup bc[c].failed
                                                \cup bc[c].closedAtTurn))
    /\ [][\A c \in Conns :
            (bc[c].st # "running" /\ bc'[c].st = "running") =>
                bc'[c].members = {ws \in Conns : Member(ws, SharedRoom)}']_vars

\* A client of the broadcast endpoint has been written the user_joined,
\* room_message and user_left messages of a client of the room endpoint,
\* which has been written the other's broadcast message.
C27_Witness ==
    \E c \in Conns, d \in Conns :
        /\ ep[c] = "broadcast" /\ ep[d] = "room"
        /\ Typed(c, "user_joined") = 1
        /\ Typed(c, "room_message") = 1
        /\ Typed(c, "user_left") = 1
        /\ Typed(d, "broadcast") = 1

\* C28: what decides whether a broadcast sends to a connection is that the
\* connection is in the copy of the target set made at the call, not that it
\* is registered when its turn comes: a target that has left the registry
\* by then, is not the excluded one and whose channel is open is sent the
\* message like any other, and counted when its send returns; when the loop
\* is over every connection of the copy has had its turn and the return
\* value counts the sends that returned, deregistered targets included.
C28_SnapshotDecidesDelivery ==
    /\ [](\A k \in Callers :
            /\ bc[k].goneAtTurn \subseteq bc[k].targets
            /\ bc[k].goneAtTurn \ (bc[k].closedAtTurn \cup {bc[k].exclude})
                  \subseteq bc[k].delivered \cup bc[k].failed
            /\ bc[k].sent = Cardinality(bc[k].delivered)
            /\ BcDone(k) =>
                  bc[k].delivered \cup bc[k].failed \cup bc[k].skipped
                      = bc[k].targets)
    /\ [][\A k \in Callers : \A ws \in bc[k].pending \ bc'[k].pending :
            (Unregistered(ws, bc[k].room) /\ ~closed[ws]
                /\ ws # bc[k].exclude) =>
                \/ ws \in bc'[k].delivered /\ bc'[k].sent = bc[k].sent + 1
                \/ ws \in bc'[k].failed /\ bc'[k].sent = bc[k].sent]_vars

\* C28 witness: the loop of a broadcast to all connections is over; a
\* connection of the copy, registered at the call, had been disconnected
\* when its turn came and its channel was open: it was sent the message and
\* is the one the return value counts.
C28_Witness ==
    /\ BcDone(AppTask)
    /\ bc[AppTask].room = NoRoom
    /\ bc[AppTask].sent = 1
    /\ \E ws \in bc[AppTask].goneAtTurn :
          /\ ws \in bc[AppTask].delivered
          /\ ws \notin bc[AppTask].closedAtTurn
          /\ ws \notin connections

====
